---- MODULE Spec2Model ----
(***************************************************************************)
(* DMARCer: the statistics accumulator, the time-window selector and the   *)
(* recommendation entry point of src/src/analysis/analyzer.py.             *)
(*                                                                         *)
(* Python dicts are functions whose DOMAIN is the set of keys present, so  *)
(* dict.get(k, default) and a KeyError on d[k] are both expressible.       *)
(* Datetimes are day numbers; timedelta(days=d) is the integer d.          *)
(***************************************************************************)
EXTENDS Integers, Sequences, FiniteSets, TLC

VARIABLES
    reports,          \* the report list: folded so far, or handed to analyze_reports
    stats,            \* the accumulator's stats dict while it folds
    time_periods,     \* the time_periods argument of analyze_reports
    bundle,           \* the stats bundle analyze_reports returned
    period_key,       \* the period_key argument of generate_policy_recommendations
    recommendations,  \* what generate_policy_recommendations raised or returned
    pc                \* "fold", "parse", "analyzed" or "recommended"

vars == <<reports, stats, time_periods, bundle, period_key, recommendations, pc>>

(***************************************************************************)
(* Bounds of the model.                                                    *)
(***************************************************************************)
\* reports folded one by one by the accumulator (SpecFold)
MaxFoldReports == 2
\* records folded in total by the accumulator (SpecFold)
MaxFoldRecords == 2
\* reports handed to analyze_reports (Spec)
MaxReports == 3

(***************************************************************************)
(* Python values.                                                          *)
(***************************************************************************)
\* None, where the code compares it with a datetime
None == -1
\* None, where the code holds it in place of a period key
NoPeriod == "None"
\* datetime.min, the begin date cli.py gives a report that has none
DatetimeMin == 0
\* None, where the parser stores the text of an element that has none
NoText == "None"

\* dict.get(key, default)
Get(d, k, default) == IF k \in DOMAIN d THEN d[k] ELSE default

\* an empty dict / defaultdict
EmptyDict == [k \in {} |-> 0]

\* AddTo keeping only the last amount
AddToOverwrite(d, k, n) ==
    IF k \in DOMAIN d THEN [d EXCEPT ![k] = n] ELSE d @@ (k :> n)

\* defaultdict(int)[k] += n
AddTo(d, k, n) ==
    IF k \in DOMAIN d THEN [d EXCEPT ![k] = @ + n] ELSE d @@ (k :> n)

\* d[k] = v on a dict (a new key is appended to the key order)
Put(d, k, v) ==
    IF k \in DOMAIN d THEN [d EXCEPT ![k] = v] ELSE d @@ (k :> v)

\* str.lower() on the result strings of the model
Lower(s) ==
    CASE s = "PASS" -> "pass"
      [] s = "Pass" -> "pass"
      [] s = "Fail" -> "fail"
      [] s = "Unknown" -> "unknown"
      [] OTHER -> s

\* int(text) on the pct strings of the model
PyInt(s) ==
    CASE s = "-50" -> -50
      [] s = "0" -> 0
      [] s = "5" -> 5
      [] s = "25" -> 25
      [] s = "30" -> 30
      [] s = "50" -> 50
      [] s = "90" -> 90
      [] s = "100" -> 100
      [] s = "180" -> 180
      [] s = "360" -> 360

\* TIME_PERIODS with the days of '30' and '180' exchanged
TIME_PERIODS_EXCHANGED ==
    [k \in {"30", "90", "180", "360", "all"} |->
        CASE k = "30" -> 180
          [] k = "90" -> 90
          [] k = "180" -> 30
          [] k = "360" -> 360
          [] k = "all" -> None]

\* TIME_PERIODS of utils/helpers.py: period key -> days (None for 'all')
TIME_PERIODS ==
    [k \in {"30", "90", "180", "360", "all"} |->
        CASE k = "30" -> 30
          [] k = "90" -> 90
          [] k = "180" -> 180
          [] k = "360" -> 360
          [] k = "all" -> None]

(***************************************************************************)
(* The statistics accumulator: _calculate_stats_for_reports.               *)
(***************************************************************************)
\* the stats dict before any report is folded
EmptyStats ==
    [total_messages |-> 0,
     domains |-> {},
     domain_stats |-> EmptyDict,
     domain_order |-> << >>,
     reporting_orgs |-> {},
     ips |-> EmptyDict,
     dkim_overall |-> [pass |-> 0, fail |-> 0],
     spf_overall |-> [pass |-> 0, fail |-> 0],
     disposition_overall |-> EmptyDict,
     failures_by_domain |-> EmptyDict,
     date_range |-> [begin |-> None, end |-> None]]

\* the default factory of stats['domain_stats']
NewDomainStats ==
    [count |-> 0, dkim_pass |-> 0, dkim_fail |-> 0, spf_pass |-> 0,
     spf_fail |-> 0, fully_aligned |-> 0, current_policy |-> "none",
     current_pct |-> 100, current_sp |-> "none", sending_sources |-> {},
     policy_applied |-> EmptyDict]

\* the default factory of stats['ips']
NewIpStats ==
    [count |-> 0, domains |-> {}, dkim_pass |-> 0, dkim_fail |-> 0,
     spf_pass |-> 0, spf_fail |-> 0, fully_aligned |-> 0,
     disposition |-> EmptyDict]

\* the domain a report's loop iteration works on
ReportDomain(report) == Get(report.policy_published, "domain", "Unknown")

\* the subpolicy a report's loop iteration stores: its own, else its policy
StoredSubpolicy(policy, current_policy) == Get(policy, "subpolicy", current_policy)

\* FoldReportHeader keeping the policy of the first report of a domain
FoldReportHeaderFirstWins(st, report) ==
    LET metadata == report.metadata
        policy == report.policy_published
        begin_date_dt == Get(metadata, "begin_date_dt", None)
        end_date_dt == Get(metadata, "end_date_dt", None)
        new_begin ==
            IF begin_date_dt # None
               /\ (st.date_range.begin = None \/ begin_date_dt < st.date_range.begin)
            THEN begin_date_dt ELSE st.date_range.begin
        new_end ==
            IF end_date_dt # None
               /\ (st.date_range.end = None \/ end_date_dt > st.date_range.end)
            THEN end_date_dt ELSE st.date_range.end
        domain == ReportDomain(report)
        current_policy == Get(policy, "policy", "none")
        entry == IF domain \in DOMAIN st.domain_stats THEN st.domain_stats[domain]
                 ELSE [NewDomainStats EXCEPT
                          !.current_policy = current_policy,
                          !.current_pct = PyInt(Get(policy, "pct", "100")),
                          !.current_sp = StoredSubpolicy(policy, current_policy)]
    IN  [st EXCEPT
            !.date_range = [begin |-> new_begin, end |-> new_end],
            !.reporting_orgs = @ \cup {Get(metadata, "org_name", "Unknown")},
            !.domains = @ \cup {domain},
            !.domain_order = IF domain \in DOMAIN st.domain_stats
                             THEN @ ELSE Append(@, domain),
            !.domain_stats = Put(@, domain, entry)]

\* one iteration of the report loop up to the record loop: date range,
\* reporting org, domain registration and the policy overwrite
FoldReportHeader(st, report) ==
    LET metadata == report.metadata
        policy == report.policy_published
        begin_date_dt == Get(metadata, "begin_date_dt", None)
        end_date_dt == Get(metadata, "end_date_dt", None)
        new_begin ==
            IF begin_date_dt # None
               /\ (st.date_range.begin = None \/ begin_date_dt < st.date_range.begin)
            THEN begin_date_dt ELSE st.date_range.begin
        new_end ==
            IF end_date_dt # None
               /\ (st.date_range.end = None \/ end_date_dt > st.date_range.end)
            THEN end_date_dt ELSE st.date_range.end
        domain == ReportDomain(report)
        old == Get(st.domain_stats, domain, NewDomainStats)
        current_policy == Get(policy, "policy", "none")
        entry == [old EXCEPT
                    !.current_policy = current_policy,
                    !.current_pct = PyInt(Get(policy, "pct", "100")),
                    !.current_sp = StoredSubpolicy(policy, current_policy)]
    IN  [st EXCEPT
            !.date_range = [begin |-> new_begin, end |-> new_end],
            !.reporting_orgs = @ \cup {Get(metadata, "org_name", "Unknown")},
            !.domains = @ \cup {domain},
            !.domain_order = IF domain \in DOMAIN st.domain_stats
                             THEN @ ELSE Append(@, domain),
            !.domain_stats = Put(@, domain, entry)]

\* what one iteration of the report loop raises before its record loop
\* ("" when nothing): report['metadata'], report['policy_published'] and
\* report['records'] are indexed, and int() is given the pct
ReportLoopRaises(report) ==
    IF ~({"metadata", "policy_published", "records"} \subseteq DOMAIN report)
    THEN "KeyError"
    ELSE IF Get(report.policy_published, "pct", "100") = NoText
    THEN "TypeError"
    ELSE ""

\* what one iteration of the record loop raises ("" when nothing):
\* dkim_result.lower() and spf_result.lower() are called on what the record
\* holds
RecordLoopRaises(record) ==
    IF \/ Get(record, "dkim_result", "unknown") = NoText
       \/ Get(record, "spf_result", "unknown") = NoText
    THEN "AttributeError"
    ELSE ""

\* is this result a pass: result.lower() == 'pass'
IsPass(result) == Lower(result) = "pass"

\* FoldIntoDomain counting every message as fully aligned
FoldIntoDomainAllAligned(ds, record) ==
    LET msg_count == Get(record, "count", 0)
        source_ip == Get(record, "source_ip", "Unknown")
        dkim_result == Get(record, "dkim_result", "unknown")
        spf_result == Get(record, "spf_result", "unknown")
        disposition == Get(record, "disposition", "unknown")
    IN  [ds EXCEPT
            !.count = @ + msg_count,
            !.sending_sources = @ \cup {source_ip},
            !.policy_applied = AddTo(@, disposition, msg_count),
            !.dkim_pass = IF IsPass(dkim_result) THEN @ + msg_count ELSE @,
            !.dkim_fail = IF IsPass(dkim_result) THEN @ ELSE @ + msg_count,
            !.spf_pass = IF IsPass(spf_result) THEN @ + msg_count ELSE @,
            !.spf_fail = IF IsPass(spf_result) THEN @ ELSE @ + msg_count,
            !.fully_aligned = @ + msg_count]

\* the record's share of the DomainStats of the report's domain
FoldIntoDomain(ds, record) ==
    LET msg_count == Get(record, "count", 0)
        source_ip == Get(record, "source_ip", "Unknown")
        dkim_result == Get(record, "dkim_result", "unknown")
        spf_result == Get(record, "spf_result", "unknown")
        disposition == Get(record, "disposition", "unknown")
    IN  [ds EXCEPT
            !.count = @ + msg_count,
            !.sending_sources = @ \cup {source_ip},
            !.policy_applied = AddTo(@, disposition, msg_count),
            !.dkim_pass = IF IsPass(dkim_result) THEN @ + msg_count ELSE @,
            !.dkim_fail = IF IsPass(dkim_result) THEN @ ELSE @ + msg_count,
            !.spf_pass = IF IsPass(spf_result) THEN @ + msg_count ELSE @,
            !.spf_fail = IF IsPass(spf_result) THEN @ ELSE @ + msg_count,
            !.fully_aligned = IF IsPass(dkim_result) \/ IsPass(spf_result)
                              THEN @ + msg_count ELSE @]

\* FoldIntoIp counting a message as fully aligned only when both pass
FoldIntoIpBothAligned(ip, record) ==
    LET msg_count == Get(record, "count", 0)
        header_from == Get(record, "header_from", "Unknown")
        dkim_result == Get(record, "dkim_result", "unknown")
        spf_result == Get(record, "spf_result", "unknown")
        disposition == Get(record, "disposition", "unknown")
    IN  [ip EXCEPT
            !.count = @ + msg_count,
            !.domains = @ \cup {header_from},
            !.disposition = AddTo(@, disposition, msg_count),
            !.dkim_pass = IF IsPass(dkim_result) THEN @ + msg_count ELSE @,
            !.dkim_fail = IF IsPass(dkim_result) THEN @ ELSE @ + msg_count,
            !.spf_pass = IF IsPass(spf_result) THEN @ + msg_count ELSE @,
            !.spf_fail = IF IsPass(spf_result) THEN @ ELSE @ + msg_count,
            !.fully_aligned = IF IsPass(dkim_result) /\ IsPass(spf_result)
                              THEN @ + msg_count ELSE @]

\* the record's share of the SourceStats of its source address
FoldIntoIp(ip, record) ==
    LET msg_count == Get(record, "count", 0)
        header_from == Get(record, "header_from", "Unknown")
        dkim_result == Get(record, "dkim_result", "unknown")
        spf_result == Get(record, "spf_result", "unknown")
        disposition == Get(record, "disposition", "unknown")
    IN  [ip EXCEPT
            !.count = @ + msg_count,
            !.domains = @ \cup {header_from},
            !.disposition = AddTo(@, disposition, msg_count),
            !.dkim_pass = IF IsPass(dkim_result) THEN @ + msg_count ELSE @,
            !.dkim_fail = IF IsPass(dkim_result) THEN @ ELSE @ + msg_count,
            !.spf_pass = IF IsPass(spf_result) THEN @ + msg_count ELSE @,
            !.spf_fail = IF IsPass(spf_result) THEN @ ELSE @ + msg_count,
            !.fully_aligned = IF IsPass(dkim_result) \/ IsPass(spf_result)
                              THEN @ + msg_count ELSE @]

\* IsDirect taking every record for direct mail
IsDirectAlways(record, domain) == TRUE

\* is the record direct mail of the report's domain
IsDirect(record, domain) == Get(record, "header_from", "Unknown") = domain

\* FoldRecordInto keeping SourceStats for direct mail only
FoldRecordIntoDirectSources(st, domain, record) ==
    LET msg_count == Get(record, "count", 0)
        source_ip == Get(record, "source_ip", "Unknown")
        header_from == Get(record, "header_from", "Unknown")
        dkim_result == Get(record, "dkim_result", "unknown")
        spf_result == Get(record, "spf_result", "unknown")
        disposition == Get(record, "disposition", "unknown")
        dkim_failed == IF IsPass(dkim_result) THEN 0 ELSE msg_count
        spf_failed == IF IsPass(spf_result) THEN 0 ELSE msg_count
        fbd1 == IF IsPass(dkim_result) THEN st.failures_by_domain
                ELSE AddTo(st.failures_by_domain, header_from, msg_count)
        fbd2 == IF IsPass(spf_result) THEN fbd1
                ELSE AddTo(fbd1, header_from, msg_count)
    IN  [st EXCEPT
            !.total_messages = @ + msg_count,
            !.domain_stats = IF IsDirect(record, domain)
                             THEN [@ EXCEPT ![domain] = FoldIntoDomain(@, record)]
                             ELSE @,
            !.ips = IF IsDirect(record, domain)
                    THEN Put(@, source_ip,
                             FoldIntoIp(Get(@, source_ip, NewIpStats), record))
                    ELSE @,
            !.dkim_overall = [pass |-> @.pass + (msg_count - dkim_failed),
                              fail |-> @.fail + dkim_failed],
            !.spf_overall = [pass |-> @.pass + (msg_count - spf_failed),
                             fail |-> @.fail + spf_failed],
            !.failures_by_domain = fbd2,
            !.disposition_overall = AddTo(@, disposition, msg_count)]

\* FoldRecordInto counting a message that fails both checks once
FoldRecordIntoOneFailure(st, domain, record) ==
    LET msg_count == Get(record, "count", 0)
        source_ip == Get(record, "source_ip", "Unknown")
        header_from == Get(record, "header_from", "Unknown")
        dkim_result == Get(record, "dkim_result", "unknown")
        spf_result == Get(record, "spf_result", "unknown")
        disposition == Get(record, "disposition", "unknown")
        dkim_failed == IF IsPass(dkim_result) THEN 0 ELSE msg_count
        spf_failed == IF IsPass(spf_result) THEN 0 ELSE msg_count
        fbd1 == IF IsPass(dkim_result) THEN st.failures_by_domain
                ELSE AddTo(st.failures_by_domain, header_from, msg_count)
        fbd2 == IF IsPass(spf_result) \/ ~IsPass(dkim_result) THEN fbd1
                ELSE AddTo(fbd1, header_from, msg_count)
    IN  [st EXCEPT
            !.total_messages = @ + msg_count,
            !.domain_stats = IF IsDirect(record, domain)
                             THEN [@ EXCEPT ![domain] = FoldIntoDomain(@, record)]
                             ELSE @,
            !.ips = Put(@, source_ip,
                        FoldIntoIp(Get(@, source_ip, NewIpStats), record)),
            !.dkim_overall = [pass |-> @.pass + (msg_count - dkim_failed),
                              fail |-> @.fail + dkim_failed],
            !.spf_overall = [pass |-> @.pass + (msg_count - spf_failed),
                             fail |-> @.fail + spf_failed],
            !.failures_by_domain = fbd2,
            !.disposition_overall = AddTo(@, disposition, msg_count)]

\* one iteration of the record loop of a report on `domain`
FoldRecordInto(st, domain, record) ==
    LET msg_count == Get(record, "count", 0)
        source_ip == Get(record, "source_ip", "Unknown")
        header_from == Get(record, "header_from", "Unknown")
        dkim_result == Get(record, "dkim_result", "unknown")
        spf_result == Get(record, "spf_result", "unknown")
        disposition == Get(record, "disposition", "unknown")
        dkim_failed == IF IsPass(dkim_result) THEN 0 ELSE msg_count
        spf_failed == IF IsPass(spf_result) THEN 0 ELSE msg_count
        fbd1 == IF IsPass(dkim_result) THEN st.failures_by_domain
                ELSE AddTo(st.failures_by_domain, header_from, msg_count)
        fbd2 == IF IsPass(spf_result) THEN fbd1
                ELSE AddTo(fbd1, header_from, msg_count)
    IN  [st EXCEPT
            !.total_messages = @ + msg_count,
            !.domain_stats = IF IsDirect(record, domain)
                             THEN [@ EXCEPT ![domain] = FoldIntoDomain(@, record)]
                             ELSE @,
            !.ips = Put(@, source_ip,
                        FoldIntoIp(Get(@, source_ip, NewIpStats), record)),
            !.dkim_overall = [pass |-> @.pass + (msg_count - dkim_failed),
                              fail |-> @.fail + dkim_failed],
            !.spf_overall = [pass |-> @.pass + (msg_count - spf_failed),
                             fail |-> @.fail + spf_failed],
            !.failures_by_domain = fbd2,
            !.disposition_overall = AddTo(@, disposition, msg_count)]

RECURSIVE FoldRecords(_, _, _)
\* the record loop of one report
FoldRecords(st, domain, records) ==
    IF records = << >> THEN st
    ELSE FoldRecords(FoldRecordInto(st, domain, Head(records)), domain, Tail(records))

\* one whole iteration of the report loop (a falsy report is skipped)
FoldReport(st, report) ==
    IF DOMAIN report = {} THEN st
    ELSE FoldRecords(FoldReportHeader(st, report), ReportDomain(report),
                     report.records)

RECURSIVE FoldReports(_, _)
\* the report loop
FoldReports(st, reports_list) ==
    IF reports_list = << >> THEN st
    ELSE FoldReports(FoldReport(st, Head(reports_list)), Tail(reports_list))

\* _calculate_stats_for_reports(reports_list)
CalculateStatsForReports(reports_list) ==
    IF reports_list = << >> THEN EmptyStats
    ELSE FoldReports(EmptyStats, reports_list)

(***************************************************************************)
(* The time-window selector: analyze_reports.                              *)
(***************************************************************************)
\* r.get('metadata', {}).get('end_date_dt')
ReportEndDate(r) == Get(Get(r, "metadata", EmptyDict), "end_date_dt", None)

RECURSIVE MaxEndDate(_, _)
\* the anchor loop: the running maximum of the end dates, from max_end_date
MaxEndDate(max_end_date, reports_list) ==
    IF reports_list = << >> THEN max_end_date
    ELSE LET report_end_date == ReportEndDate(Head(reports_list))
         IN  MaxEndDate(IF report_end_date # None
                           /\ (max_end_date = None \/ report_end_date > max_end_date)
                        THEN report_end_date ELSE max_end_date,
                        Tail(reports_list))

\* the anchor of the windows; `now` is datetime.now()
Anchor(reports_list, now) ==
    LET m == MaxEndDate(None, reports_list)
    IN  IF m = None THEN now ELSE m

\* InWindow with an exclusive lower bound
InWindowExclusive(r, period_start) ==
    ReportEndDate(r) # None /\ ReportEndDate(r) > period_start

\* does the report pass the filter of a period that starts at period_start
InWindow(r, period_start) ==
    ReportEndDate(r) # None /\ ReportEndDate(r) >= period_start

\* filtered_reports of a day-based period
FilteredReports(reports_list, pkey, now) ==
    LET period_start == Anchor(reports_list, now) - TIME_PERIODS[pkey]
    IN  SelectSeq(reports_list, LAMBDA r : InWindow(r, period_start))

\* IsMeaningful without the test on the message total
IsMeaningfulAnyReport(filtered_reports, period_stats) ==
    Len(filtered_reports) > 0

\* is a day-based period meaningful
IsMeaningful(filtered_reports, period_stats) ==
    Len(filtered_reports) > 0 /\ period_stats.total_messages > 0

\* stats_bundle['periods'][period_key] for a non-empty report list
PeriodEntry(reports_list, pkey, now) ==
    IF pkey = "all"
    THEN LET period_stats == CalculateStatsForReports(reports_list)
         IN  [stats |-> period_stats,
              is_meaningful |-> period_stats.total_messages > 0,
              days |-> None]
    ELSE LET filtered_reports == FilteredReports(reports_list, pkey, now)
             period_stats == CalculateStatsForReports(filtered_reports)
         IN  [stats |-> period_stats,
              is_meaningful |-> IsMeaningful(filtered_reports, period_stats),
              days |-> TIME_PERIODS[pkey]]

\* SortKey with 'all' sorting first
SortKeyAllFirst(x) == IF x = "all" THEN 0 ELSE PyInt(x)

\* the sort key of the default-period search
SortKey(x) == IF x = "all" THEN 9999 ELSE PyInt(x)

\* DefaultPeriod preferring '30' whether it is meaningful or not
DefaultPeriodAlways30(periods) ==
    IF "30" \in DOMAIN periods THEN "30"
    ELSE LET meaningful == {p \in DOMAIN periods : periods[p].is_meaningful}
         IN  IF meaningful # {}
             THEN CHOOSE p \in meaningful :
                      \A q \in meaningful : SortKey(p) <= SortKey(q)
             ELSE IF "all" \in DOMAIN periods THEN "all" ELSE NoPeriod

\* the default period of a bundle's periods
DefaultPeriod(periods) ==
    IF "30" \in DOMAIN periods /\ periods["30"].is_meaningful THEN "30"
    ELSE LET meaningful == {p \in DOMAIN periods : periods[p].is_meaningful}
         IN  IF meaningful # {}
             THEN CHOOSE p \in meaningful :
                      \A q \in meaningful : SortKey(p) <= SortKey(q)
             ELSE IF "all" \in DOMAIN periods THEN "all" ELSE NoPeriod

\* EmptyBundle with every period flagged meaningful
EmptyBundleMeaningful(keys) ==
    [periods |-> [p \in keys |->
                     [stats |-> CalculateStatsForReports(<< >>),
                      is_meaningful |-> TRUE]]]

\* the bundle analyze_reports returns for an empty report list
EmptyBundle(keys) ==
    [periods |-> [p \in keys |->
                     [stats |-> CalculateStatsForReports(<< >>),
                      is_meaningful |-> FALSE]]]

\* analyze_reports(all_sorted_reports, time_periods)
AnalyzeReports(all_sorted_reports, keys, now) ==
    IF all_sorted_reports = << >> THEN EmptyBundle(keys)
    ELSE LET periods == [p \in keys |->
                            PeriodEntry(all_sorted_reports, p, now)]
         IN  [periods |-> periods, default_period |-> DefaultPeriod(periods)]

(***************************************************************************)
(* The recommendation engine: generate_policy_recommendations.             *)
(* A recommendation string is its category tag, what it recommends, and    *)
(* the pct it proposes when it proposes one.  A rate num/den is compared   *)
(* with a cutoff of c hundredths as 100 * num against c * den.             *)
(***************************************************************************)
Line(tag, what) == [tag |-> tag, what |-> what]

PctLine(tag, what, from, to) == [tag |-> tag, what |-> what, from |-> from, to |-> to]

\* Min without the cap
MinFirst(a, b) == a

Min(a, b) == IF a < b THEN a ELSE b

\* RateAtLeast with the cutoff itself left out
RateAbove(num, den, c) == 100 * num > c * den

\* num / den >= c / 100
RateAtLeast(num, den, c) == 100 * num >= c * den

\* the INFO line naming the period the recommendations rest on
InfoLine(st, days) ==
    IF days # None THEN Line("INFO", "the last days")
    ELSE IF st.date_range.begin # None /\ st.date_range.end # None
         THEN Line("INFO", "all available data with dates")
         ELSE Line("INFO", "all available data")

\* PolicyProgression warning of lost mail under 0.95 instead of 0.98
PolicyProgressionLateWarning(ds) ==
    LET fa == ds.fully_aligned
        n == ds.count
        current_pct == ds.current_pct
    IN  CASE ds.current_policy = "none" ->
               IF RateAtLeast(fa, n, 95)
               THEN << Line("POLICY UPGRADE", "quarantine pct=5") >>
               ELSE IF RateAtLeast(fa, n, 85)
               THEN << Line("MONITOR", "work toward quarantine") >>
               ELSE << Line("CAUTION", "maintain none"),
                       Line("IMPROVEMENT NEEDED", "before enforcement") >>
          [] ds.current_policy = "quarantine" ->
               IF RateAtLeast(fa, n, 98)
               THEN IF current_pct < 100
                    THEN << PctLine("PERCENTAGE INCREASE", "excellent",
                                    current_pct, Min(current_pct + 25, 100)) >>
                    ELSE << Line("POLICY UPGRADE", "reject pct=5") >>
               ELSE IF RateAtLeast(fa, n, 90)
               THEN IF current_pct < 100
                    THEN << PctLine("PERCENTAGE INCREASE", "consider",
                                    current_pct, Min(current_pct + 10, 100)) >>
                    ELSE << Line("MAINTAIN", "quarantine at 100") >>
               ELSE (IF current_pct > 25
                     THEN << Line("CAUTION", "decrease pct") >> ELSE << >>)
                    \o << Line("IMPROVEMENT NEEDED", "before increasing") >>
          [] ds.current_policy = "reject" ->
               IF current_pct < 100
               THEN IF RateAtLeast(fa, n, 98)
                    THEN << PctLine("PERCENTAGE INCREASE", "consider",
                                    current_pct, Min(current_pct + 20, 100)) >>
                    ELSE IF RateAtLeast(fa, n, 95)
                    THEN << PctLine("PERCENTAGE INCREASE", "modest",
                                    current_pct, Min(current_pct + 10, 100)) >>
                    ELSE << Line("CAUTION", "maintain pct") >>
               ELSE << Line("OPTIMAL", "maximum enforcement") >>
                    \o (IF ~RateAtLeast(fa, n, 95)
                        THEN << Line("MONITOR", "legitimate email loss") >>
                        ELSE << >>)
          [] OTHER -> << >>

\* the policy progression lines of one domain
PolicyProgression(ds) ==
    LET fa == ds.fully_aligned
        n == ds.count
        current_pct == ds.current_pct
    IN  CASE ds.current_policy = "none" ->
               IF RateAtLeast(fa, n, 95)
               THEN << Line("POLICY UPGRADE", "quarantine pct=5") >>
               ELSE IF RateAtLeast(fa, n, 85)
               THEN << Line("MONITOR", "work toward quarantine") >>
               ELSE << Line("CAUTION", "maintain none"),
                       Line("IMPROVEMENT NEEDED", "before enforcement") >>
          [] ds.current_policy = "quarantine" ->
               IF RateAtLeast(fa, n, 98)
               THEN IF current_pct < 100
                    THEN << PctLine("PERCENTAGE INCREASE", "excellent",
                                    current_pct, Min(current_pct + 25, 100)) >>
                    ELSE << Line("POLICY UPGRADE", "reject pct=5") >>
               ELSE IF RateAtLeast(fa, n, 90)
               THEN IF current_pct < 100
                    THEN << PctLine("PERCENTAGE INCREASE", "consider",
                                    current_pct, Min(current_pct + 10, 100)) >>
                    ELSE << Line("MAINTAIN", "quarantine at 100") >>
               ELSE (IF current_pct > 25
                     THEN << Line("CAUTION", "decrease pct") >> ELSE << >>)
                    \o << Line("IMPROVEMENT NEEDED", "before increasing") >>
          [] ds.current_policy = "reject" ->
               IF current_pct < 100
               THEN IF RateAtLeast(fa, n, 98)
                    THEN << PctLine("PERCENTAGE INCREASE", "consider",
                                    current_pct, Min(current_pct + 20, 100)) >>
                    ELSE IF RateAtLeast(fa, n, 95)
                    THEN << PctLine("PERCENTAGE INCREASE", "modest",
                                    current_pct, Min(current_pct + 10, 100)) >>
                    ELSE << Line("CAUTION", "maintain pct") >>
               ELSE << Line("OPTIMAL", "maximum enforcement") >>
                    \o (IF ~RateAtLeast(fa, n, 98)
                        THEN << Line("MONITOR", "legitimate email loss") >>
                        ELSE << >>)
          [] OTHER -> << >>

\* AuthenticationLines calling a DKIM rate of exactly 0.70 critical
AuthenticationLinesCriticalAtCutoff(ds) ==
    (IF ~RateAtLeast(ds.dkim_pass, ds.count, 90)
     THEN << Line("DKIM ISSUE", "improve DKIM") >>
          \o (IF 100 * ds.dkim_pass <= 70 * ds.count
              THEN << Line("CRITICAL", "DKIM") >> ELSE << >>)
     ELSE << >>)
    \o (IF ~RateAtLeast(ds.spf_pass, ds.count, 90)
        THEN << Line("SPF ISSUE", "improve SPF") >>
             \o (IF ~RateAtLeast(ds.spf_pass, ds.count, 70)
                 THEN << Line("CRITICAL", "SPF") >> ELSE << >>)
        ELSE << >>)
    \o (IF ds.current_sp # "reject" /\ ds.current_policy # "none"
        THEN << Line("SUBDOMAIN POLICY", "sp=reject") >> ELSE << >>)
    \o (IF Cardinality(ds.sending_sources) > 10
           /\ ds.current_policy # "none" /\ ds.current_pct > 50
        THEN << Line("DIVERSITY WARNING", "sending sources") >> ELSE << >>)

\* AuthenticationLines advising sp=reject unless both conditions fail
AuthenticationLinesEitherCondition(ds) ==
    (IF ~RateAtLeast(ds.dkim_pass, ds.count, 90)
     THEN << Line("DKIM ISSUE", "improve DKIM") >>
          \o (IF ~RateAtLeast(ds.dkim_pass, ds.count, 70)
              THEN << Line("CRITICAL", "DKIM") >> ELSE << >>)
     ELSE << >>)
    \o (IF ~RateAtLeast(ds.spf_pass, ds.count, 90)
        THEN << Line("SPF ISSUE", "improve SPF") >>
             \o (IF ~RateAtLeast(ds.spf_pass, ds.count, 70)
                 THEN << Line("CRITICAL", "SPF") >> ELSE << >>)
        ELSE << >>)
    \o (IF ds.current_sp # "reject" \/ ds.current_policy # "none"
        THEN << Line("SUBDOMAIN POLICY", "sp=reject") >> ELSE << >>)
    \o (IF Cardinality(ds.sending_sources) > 10
           /\ ds.current_policy # "none" /\ ds.current_pct > 50
        THEN << Line("DIVERSITY WARNING", "sending sources") >> ELSE << >>)

\* AuthenticationLines warning of diversity from ten sources on
AuthenticationLinesTenSources(ds) ==
    (IF ~RateAtLeast(ds.dkim_pass, ds.count, 90)
     THEN << Line("DKIM ISSUE", "improve DKIM") >>
          \o (IF ~RateAtLeast(ds.dkim_pass, ds.count, 70)
              THEN << Line("CRITICAL", "DKIM") >> ELSE << >>)
     ELSE << >>)
    \o (IF ~RateAtLeast(ds.spf_pass, ds.count, 90)
        THEN << Line("SPF ISSUE", "improve SPF") >>
             \o (IF ~RateAtLeast(ds.spf_pass, ds.count, 70)
                 THEN << Line("CRITICAL", "SPF") >> ELSE << >>)
        ELSE << >>)
    \o (IF ds.current_sp # "reject" /\ ds.current_policy # "none"
        THEN << Line("SUBDOMAIN POLICY", "sp=reject") >> ELSE << >>)
    \o (IF Cardinality(ds.sending_sources) >= 10
           /\ ds.current_policy # "none" /\ ds.current_pct > 50
        THEN << Line("DIVERSITY WARNING", "sending sources") >> ELSE << >>)

\* the DKIM, SPF, subdomain and diversity lines of one domain
AuthenticationLines(ds) ==
    (IF ~RateAtLeast(ds.dkim_pass, ds.count, 90)
     THEN << Line("DKIM ISSUE", "improve DKIM") >>
          \o (IF ~RateAtLeast(ds.dkim_pass, ds.count, 70)
              THEN << Line("CRITICAL", "DKIM") >> ELSE << >>)
     ELSE << >>)
    \o (IF ~RateAtLeast(ds.spf_pass, ds.count, 90)
        THEN << Line("SPF ISSUE", "improve SPF") >>
             \o (IF ~RateAtLeast(ds.spf_pass, ds.count, 70)
                 THEN << Line("CRITICAL", "SPF") >> ELSE << >>)
        ELSE << >>)
    \o (IF ds.current_sp # "reject" /\ ds.current_policy # "none"
        THEN << Line("SUBDOMAIN POLICY", "sp=reject") >> ELSE << >>)
    \o (IF Cardinality(ds.sending_sources) > 10
           /\ ds.current_policy # "none" /\ ds.current_pct > 50
        THEN << Line("DIVERSITY WARNING", "sending sources") >> ELSE << >>)

\* the stats snapshot of a domain with messages; a rate is kept as the
\* fraction num/den it is 100 times of
Snapshot(ds) ==
    [messages |-> ds.count,
     dkim_rate |-> [num |-> 100 * ds.dkim_pass, den |-> ds.count],
     spf_rate |-> [num |-> 100 * ds.spf_pass, den |-> ds.count],
     alignment_rate |-> [num |-> 100 * ds.fully_aligned, den |-> ds.count],
     current_policy |-> ds.current_policy,
     current_pct |-> ds.current_pct,
     current_sp |-> ds.current_sp,
     num_sources |-> Cardinality(ds.sending_sources),
     policy_results |-> ds.policy_applied]

\* DomainRecommendation running the rules on a domain without messages too
DomainRecommendationNoSkip(st, days, domain) ==
    LET ds == st.domain_stats[domain]
    IN  [domain |-> domain,
         recommendations |-> (IF ds.count = 0
                              THEN << Line("NO DATA", "no direct messages") >>
                              ELSE << InfoLine(st, days) >>)
                             \o PolicyProgression(ds)
                             \o AuthenticationLines(ds),
         stats |-> Snapshot(ds)]

\* the entry of one domain
DomainRecommendation(st, days, domain) ==
    LET ds == st.domain_stats[domain]
    IN  IF ds.count = 0
        THEN [domain |-> domain,
              recommendations |-> << Line("NO DATA", "no direct messages") >>,
              stats |-> ds]
        ELSE [domain |-> domain,
              recommendations |-> << InfoLine(st, days) >>
                                  \o PolicyProgression(ds)
                                  \o AuthenticationLines(ds),
              stats |-> Snapshot(ds)]

\* the period generate_policy_recommendations reads, before it indexes
\* stats_bundle['periods'] with it
ResolvePeriodKey(stats_bundle, pkey) ==
    LET requested == IF pkey = NoPeriod
                     THEN Get(stats_bundle, "default_period", "all")
                     ELSE pkey
    IN  IF requested \notin DOMAIN stats_bundle.periods THEN "all" ELSE requested

\* GeneratePolicyRecommendations listing the domain observed last first
GeneratePolicyRecommendationsReversed(stats_bundle, pkey) ==
    LET key == ResolvePeriodKey(stats_bundle, pkey)
    IN  IF key \notin DOMAIN stats_bundle.periods
        THEN [raised |-> "KeyError", value |-> << >>]
        ELSE LET period_data == stats_bundle.periods[key]
                 st == period_data.stats
                 days == Get(period_data, "days", None)
                 last == Len(st.domain_order)
             IN  [raised |-> "",
                  value |-> [i \in 1..last |->
                               DomainRecommendation(st, days,
                                                    st.domain_order[last + 1 - i])]]

\* generate_policy_recommendations(stats_bundle, period_key): what it
\* raises ("" when it returns) and the list it returns
GeneratePolicyRecommendations(stats_bundle, pkey) ==
    LET key == ResolvePeriodKey(stats_bundle, pkey)
    IN  IF key \notin DOMAIN stats_bundle.periods
        THEN [raised |-> "KeyError", value |-> << >>]
        ELSE LET period_data == stats_bundle.periods[key]
                 st == period_data.stats
                 days == Get(period_data, "days", None)
             IN  [raised |-> "",
                  value |-> [i \in 1..Len(st.domain_order) |->
                               DomainRecommendation(st, days, st.domain_order[i])]]

(***************************************************************************)
(* Inputs.                                                                 *)
(***************************************************************************)
Domains == {"a.com", "b.com"}

\* published policies: p, pct and sp as the parser stores them, or absent
RejectPolicy == [policy |-> "reject", pct |-> "100", subpolicy |-> "none"]

QuarantinePolicy == [policy |-> "quarantine", pct |-> "50"]

SubdomainPolicy == [policy |-> "quarantine", pct |-> "50", subpolicy |-> "reject"]

\* count, source, DKIM result, SPF result and disposition of a record
Outcomes ==
    {[count |-> 0, source_ip |-> "192.0.2.1", dkim_result |-> "fail",
      spf_result |-> "fail", disposition |-> "none"],
     [count |-> 1, source_ip |-> "192.0.2.1", dkim_result |-> "pass",
      spf_result |-> "pass", disposition |-> "none"],
     [count |-> 1, source_ip |-> "192.0.2.2", dkim_result |-> "PASS",
      spf_result |-> "fail", disposition |-> "none"],
     [count |-> 1, source_ip |-> "192.0.2.1", dkim_result |-> "fail",
      spf_result |-> "pass", disposition |-> "quarantine"],
     [count |-> 2, source_ip |-> "192.0.2.2", dkim_result |-> "fail",
      spf_result |-> "fail", disposition |-> "reject"]}

\* the records the accumulator is fed
Records == {o @@ [header_from |-> h] : o \in Outcomes, h \in Domains}

\* a report without a date range
NoRange == << >>

\* a parsed report: its metadata with or without a date range <<begin, end>>
\* (cli.py gives a report without one the begin date datetime.min), its
\* published policy and its records
Report(range, domain, policy, records) ==
    [metadata |->
        IF range = NoRange
        THEN [org_name |-> "google.com", begin_date_dt |-> DatetimeMin]
        ELSE [org_name |-> "google.com", begin_date_dt |-> range[1],
              end_date_dt |-> range[2]],
     policy_published |-> policy @@ [domain |-> domain],
     records |-> records]

\* the report headers the accumulator is fed
FoldHeaders ==
    {Report(<<499, 500>>, "a.com", RejectPolicy, << >>),
     Report(<<499, 500>>, "a.com", QuarantinePolicy, << >>),
     Report(<<499, 500>>, "b.com", EmptyDict, << >>),
     Report(<<499, 500>>, "b.com", SubdomainPolicy, << >>)}

\* report headers with something missing: the records section, and the
\* text of the pct element (<pct/>)
MalformedHeaders ==
    {[metadata |-> [org_name |-> "google.com", begin_date_dt |-> 499,
                    end_date_dt |-> 500],
      policy_published |-> RejectPolicy @@ [domain |-> "a.com"]],
     Report(<<499, 500>>, "a.com",
            [policy |-> "none", pct |-> NoText, subpolicy |-> "none"], << >>)}

\* records with something missing: the text of the dkim element (<dkim/>)
\* and of the spf element of policy_evaluated
MalformedRecords ==
    {[source_ip |-> "192.0.2.1", count |-> 1, header_from |-> "a.com",
      dkim_result |-> NoText, spf_result |-> "pass", disposition |-> "none"],
     [source_ip |-> "192.0.2.1", count |-> 1, header_from |-> "b.com",
      dkim_result |-> "pass", spf_result |-> NoText, disposition |-> "none"]}

\* the record lists of the reports handed to analyze_reports
RecordLists ==
    {<< >>,
     << [source_ip |-> "192.0.2.1", count |-> 1, header_from |-> "a.com",
         dkim_result |-> "pass", spf_result |-> "fail", disposition |-> "none"] >>}

\* the date ranges <<begin, end>> of the reports handed to analyze_reports,
\* in days: with the latest end T = 500 they end at T-400, T, T-100, T-30,
\* T-10 and T, and the second spans the third
DateRanges ==
    {<<99, 100>>, <<390, 500>>, <<399, 400>>, <<469, 470>>, <<489, 490>>,
     <<499, 500>>}

\* the domain and the policy the report of each date range publishes
Publishes(range) ==
    CASE range = NoRange -> <<"a.com", QuarantinePolicy>>
      [] range = <<99, 100>> -> <<"a.com", RejectPolicy>>
      [] range = <<390, 500>> -> <<"a.com", RejectPolicy>>
      [] range = <<399, 400>> -> <<"a.com", QuarantinePolicy>>
      [] range = <<469, 470>> -> <<"b.com", SubdomainPolicy>>
      [] range = <<489, 490>> -> <<"a.com", RejectPolicy>>
      [] range = <<499, 500>> -> <<"a.com", QuarantinePolicy>>

\* the reports handed to analyze_reports
AnalysisReports ==
    {Report(range, Publishes(range)[1], Publishes(range)[2], rs) :
        range \in DateRanges \cup {NoRange}, rs \in RecordLists}

\* datetime.now() at the time of the analysis
Now == 600

\* the period keys of the command line
PeriodKeys == DOMAIN TIME_PERIODS

\* the begin date cli.py sorts the reports by
BeginDate(r) == Get(r.metadata, "begin_date_dt", DatetimeMin)

(***************************************************************************)
(* The accumulator, one loop iteration at a time (SpecFold).               *)
(***************************************************************************)
NoBundle == EmptyDict

NoRecommendations == [raised |-> "", value |-> << >>]

RECURSIVE RecordCount(_)
RecordCount(reports_list) ==
    IF reports_list = << >> THEN 0
    ELSE Len(Head(reports_list).records) + RecordCount(Tail(reports_list))

InitFold ==
    /\ reports = << >>
    /\ stats = EmptyStats
    /\ time_periods = {}
    /\ bundle = NoBundle
    /\ period_key = NoPeriod
    /\ recommendations = NoRecommendations
    /\ pc = "fold"

\* the report loop takes the next report: lines 61-88; when the iteration
\* raises, the function is left without a result
FoldNextReport ==
    /\ pc = "fold"
    /\ Len(reports) < MaxFoldReports
    /\ \E report \in FoldHeaders \cup MalformedHeaders :
          IF ReportLoopRaises(report) # ""
          THEN /\ pc' = ReportLoopRaises(report)
               /\ UNCHANGED <<reports, stats>>
          ELSE /\ reports' = Append(reports, report)
               /\ stats' = FoldReportHeader(stats, report)
               /\ pc' = pc
    /\ UNCHANGED <<time_periods, bundle, period_key, recommendations>>

\* the record loop takes the next record of the report at hand: lines
\* 90-142; when the iteration raises, the function is left without a result
FoldNextRecord ==
    /\ pc = "fold"
    /\ Len(reports) > 0
    /\ RecordCount(reports) < MaxFoldRecords
    /\ \E record \in Records \cup MalformedRecords :
          LET report == reports[Len(reports)]
          IN  IF RecordLoopRaises(record) # ""
              THEN /\ pc' = RecordLoopRaises(record)
                   /\ UNCHANGED <<reports, stats>>
              ELSE /\ reports' = [reports EXCEPT ![Len(reports)] =
                                     [report EXCEPT !.records = Append(@, record)]]
                   /\ stats' = FoldRecordInto(stats, ReportDomain(report), record)
                   /\ pc' = pc
    /\ UNCHANGED <<time_periods, bundle, period_key, recommendations>>

NextFold == FoldNextReport \/ FoldNextRecord

SpecFold == InitFold /\ [][NextFold]_vars

(***************************************************************************)
(* The pipeline of cli.py: the sorted report list, analyze_reports, then   *)
(* generate_policy_recommendations on its bundle (Spec).                   *)
(***************************************************************************)
Init ==
    /\ reports = << >>
    /\ stats = EmptyStats
    /\ time_periods = {}
    /\ bundle = NoBundle
    /\ period_key = NoPeriod
    /\ recommendations = NoRecommendations
    /\ pc = "parse"

\* the caller adds a parsed report, keeping the list sorted by begin date
AddReport ==
    /\ pc = "parse"
    /\ Len(reports) < MaxReports
    /\ \E report \in AnalysisReports :
          /\ IF reports = << >> THEN TRUE
             ELSE BeginDate(reports[Len(reports)]) <= BeginDate(report)
          /\ reports' = Append(reports, report)
    /\ UNCHANGED <<stats, time_periods, bundle, period_key, recommendations, pc>>

\* analyze_reports(reports, time_periods=tp)
Analyze ==
    /\ pc = "parse"
    /\ \E tp \in (SUBSET PeriodKeys) \ {{}} :
          /\ time_periods' = tp
          /\ bundle' = AnalyzeReports(reports, tp, Now)
    /\ pc' = "analyzed"
    /\ UNCHANGED <<reports, stats, period_key, recommendations>>

\* Recommend storing the period key it fell back to in the bundle
RecommendStoringPeriodKey ==
    /\ pc = "analyzed"
    /\ \E pk \in PeriodKeys \cup {NoPeriod} :
          /\ period_key' = pk
          /\ recommendations' = GeneratePolicyRecommendations(bundle, pk)
    /\ bundle' = [default_period |-> "all"] @@ bundle
    /\ pc' = "recommended"
    /\ UNCHANGED <<reports, stats, time_periods>>

\* generate_policy_recommendations(bundle, period_key=pk)
Recommend ==
    /\ pc = "analyzed"
    /\ \E pk \in PeriodKeys \cup {NoPeriod} :
          /\ period_key' = pk
          /\ recommendations' = GeneratePolicyRecommendations(bundle, pk)
    /\ pc' = "recommended"
    /\ UNCHANGED <<reports, stats, time_periods, bundle>>

Next == AddReport \/ Analyze \/ Recommend

Spec == Init /\ [][Next]_vars

(***************************************************************************)
(* The pipeline of cli.py up to the bundle analyze_reports returns         *)
(* (SpecAnalyze).                                                          *)
(***************************************************************************)
NextAnalyze == AddReport \/ Analyze

SpecAnalyze == Init /\ [][NextAnalyze]_vars

(***************************************************************************)
(* The same pipeline on the reports of one domain whose message counts     *)
(* bring its rates to the cutoffs of the rules (SpecRules).                *)
(***************************************************************************)
MaxRuleReports == 1

\* the policies a.com publishes, as the parser stores them
RulePolicies ==
    {[policy |-> "none", pct |-> "100", subpolicy |-> "none"],
     [policy |-> "quarantine", pct |-> "-50", subpolicy |-> "quarantine"],
     [policy |-> "quarantine", pct |-> "25", subpolicy |-> "quarantine"],
     [policy |-> "quarantine", pct |-> "50", subpolicy |-> "none"],
     [policy |-> "quarantine", pct |-> "90", subpolicy |-> "reject"],
     [policy |-> "quarantine", pct |-> "100", subpolicy |-> "quarantine"],
     [policy |-> "reject", pct |-> "50", subpolicy |-> "reject"],
     [policy |-> "reject", pct |-> "90", subpolicy |-> "none"],
     [policy |-> "reject", pct |-> "100", subpolicy |-> "reject"]}

\* a record of count messages with header_from a.com
RuleRecord(count, dkim_result, spf_result) ==
    [source_ip |-> "192.0.2.1", count |-> count, header_from |-> "a.com",
     dkim_result |-> dkim_result, spf_result |-> spf_result,
     disposition |-> "none"]

\* <<messages passing both checks, the other messages>> of a report: the
\* passing share is 0.98, 0.95, 0.90, 0.85 and 0.70, and a message less
RuleCounts ==
    {<<98, 2>>, <<97, 3>>, <<95, 5>>, <<94, 6>>, <<90, 10>>, <<89, 11>>,
     <<85, 15>>, <<84, 16>>, <<70, 30>>, <<69, 31>>}

\* eleven source addresses
RuleSources ==
    << "198.51.100.1", "198.51.100.2", "198.51.100.3", "198.51.100.4",
       "198.51.100.5", "198.51.100.6", "198.51.100.7", "198.51.100.8",
       "198.51.100.9", "198.51.100.10", "198.51.100.11" >>

\* one passing message of a.com from each of the first n sources
FromSources(n) ==
    [k \in 1..n |-> [RuleRecord(1, "pass", "pass") EXCEPT
                        !.source_ip = RuleSources[k]]]

\* the record lists of a.com's reports: none, mail of another domain only,
\* mail from ten and from eleven sources, and passing mail next to mail
\* failing both checks or, around the cutoffs of the DKIM and SPF rules,
\* one of them
RuleRecordLists ==
    {<< >>, << [RuleRecord(1, "pass", "pass") EXCEPT !.header_from = "b.com"] >>,
     FromSources(10), FromSources(11)}
    \cup {<< RuleRecord(c[1], "pass", "pass"), RuleRecord(c[2], "fail", "fail") >> :
              c \in RuleCounts}
    \cup {<< RuleRecord(c[1], "pass", "pass"), RuleRecord(c[2], o[1], o[2]) >> :
              c \in {<<90, 10>>, <<89, 11>>, <<70, 30>>, <<69, 31>>},
              o \in {<<"fail", "pass">>, <<"pass", "fail">>}}

\* the reports handed to analyze_reports
RuleReports ==
    {Report(<<499, 500>>, "a.com", policy, rs) :
        policy \in RulePolicies, rs \in RuleRecordLists}

\* the period keys of the command line
RulePeriods == {{"all"}, {"30", "all"}}

\* the caller adds a parsed report of a.com
AddRuleReport ==
    /\ pc = "parse"
    /\ Len(reports) < MaxRuleReports
    /\ \E report \in RuleReports : reports' = Append(reports, report)
    /\ UNCHANGED <<stats, time_periods, bundle, period_key, recommendations, pc>>

\* analyze_reports(reports, time_periods=tp)
AnalyzeRuleReports ==
    /\ pc = "parse"
    /\ \E tp \in RulePeriods :
          /\ time_periods' = tp
          /\ bundle' = AnalyzeReports(reports, tp, Now)
    /\ pc' = "analyzed"
    /\ UNCHANGED <<reports, stats, period_key, recommendations>>

NextRules == AddRuleReport \/ AnalyzeRuleReports \/ Recommend

SpecRules == Init /\ [][NextRules]_vars

(***************************************************************************)
(* What the claims speak of, stated apart from the code's own loops.       *)
(***************************************************************************)
\* analyze_reports has just returned the bundle
Analyzed == pc = "analyzed"

\* the end dates the reports carry
EndDates == {reports[i].metadata.end_date_dt :
                i \in {j \in 1..Len(reports) : "end_date_dt" \in DOMAIN reports[j].metadata}}

\* the anchor: the maximum end date over all reports
MaxEnd == CHOOSE m \in EndDates : \A e \in EndDates : e <= m

\* the length in days of a numeric period
PeriodDays(p) ==
    CASE p = "30" -> 30 [] p = "90" -> 90 [] p = "180" -> 180 [] p = "360" -> 360

\* the positions of the reports in the window of period p
Window(p) ==
    IF p = "all" THEN 1..Len(reports)
    ELSE LET anchor == MaxEnd
             days == PeriodDays(p)
         IN  {i \in 1..Len(reports) :
                 /\ "end_date_dt" \in DOMAIN reports[i].metadata
                 /\ anchor - days <= reports[i].metadata.end_date_dt
                 /\ reports[i].metadata.end_date_dt <= anchor}

\* the reports in the window of period p, in input order
WindowReports(p) ==
    LET w == Window(p)
        RECURSIVE Pick(_)
        Pick(i) == IF i > Len(reports) THEN << >>
                   ELSE IF i \in w THEN << reports[i] >> \o Pick(i + 1)
                   ELSE Pick(i + 1)
    IN  Pick(1)

\* the meaningful periods of the bundle
Meaningful == {p \in DOMAIN bundle.periods : bundle.periods[p].is_meaningful}

\* the place of a period key in ascending order, 'all' last
Rank(p) ==
    CASE p = "30" -> 1 [] p = "90" -> 2 [] p = "180" -> 3 [] p = "360" -> 4
      [] p = "all" -> 5

(***************************************************************************)
(* Claims on analyze_reports (Spec).                                       *)
(***************************************************************************)
\* C1: for a non-empty report list and any non-empty set of recognized
\* period keys, the bundle's default_period is set and is a key of
\* bundle.periods.
C1_DefaultPeriodIsBundleKey ==
    (Analyzed /\ reports # << >>) =>
        /\ "default_period" \in DOMAIN bundle
        /\ bundle.default_period \in DOMAIN bundle.periods

\* C2: in every bundle, a period is flagged meaningful if and only if at
\* least one report falls in its window and its total_messages is positive.
C2_MeaningfulIffReportAndMessages ==
    Analyzed =>
        \A p \in DOMAIN bundle.periods :
            bundle.periods[p].is_meaningful <=>
                (Window(p) # {} /\ bundle.periods[p].stats.total_messages > 0)

\* a period with messages is meaningful while another one, though a report
\* falls in its window, is not
C2_Witness ==
    /\ Analyzed
    /\ \E p, q \in DOMAIN bundle.periods :
          /\ bundle.periods[p].is_meaningful
          /\ Window(q) # {}
          /\ ~bundle.periods[q].is_meaningful

C4_WindowIsInclusive ==
    (Analyzed /\ reports # << >>) =>
        \A p \in DOMAIN bundle.periods :
            LET window_reports == WindowReports(p)
            IN  /\ p # "all" => FilteredReports(reports, p, Now) = window_reports
                /\ bundle.periods[p].stats = CalculateStatsForReports(window_reports)

\* end dates T-100, T-10 and T, each report with one message: 30 and 90
\* hold the last two reports, all holds the three
C4_Witness ==
    /\ Analyzed
    /\ Len(reports) = 3
    /\ \A i \in 1..3 : "end_date_dt" \in DOMAIN reports[i].metadata
    /\ [i \in 1..3 |-> reports[i].metadata.end_date_dt] = <<400, 490, 500>>
    /\ \A i \in 1..3 : Len(reports[i].records) = 1
    /\ {"30", "90", "all"} \subseteq DOMAIN bundle.periods
    /\ bundle.periods["30"].stats = CalculateStatsForReports(SubSeq(reports, 2, 3))
    /\ bundle.periods["90"].stats = CalculateStatsForReports(SubSeq(reports, 2, 3))
    /\ bundle.periods["30"].stats.total_messages = 2
    /\ bundle.periods["all"].stats.total_messages = 3

\* C5: for an empty report list every requested period is in the bundle
\* with total_messages 0, no domain, no source, and not meaningful.
C5_EmptyInputGivesEmptyPeriods ==
    (Analyzed /\ reports = << >>) =>
        \A p \in time_periods :
            /\ p \in DOMAIN bundle.periods
            /\ bundle.periods[p].stats.total_messages = 0
            /\ DOMAIN bundle.periods[p].stats.domain_stats = {}
            /\ DOMAIN bundle.periods[p].stats.ips = {}
            /\ ~bundle.periods[p].is_meaningful

\* the empty list has been analyzed for the five period keys
C5_Witness ==
    /\ Analyzed
    /\ reports = << >>
    /\ time_periods = PeriodKeys
    /\ DOMAIN bundle.periods = PeriodKeys

\* C6: for an empty report list the bundle still carries a default_period,
\* and it is a key of bundle.periods.
C6_EmptyInputHasDefaultPeriod ==
    (Analyzed /\ reports = << >>) =>
        /\ "default_period" \in DOMAIN bundle
        /\ bundle.default_period \in DOMAIN bundle.periods

\* C7: generate_policy_recommendations with a period key that is no key of
\* the bundle, or with none and the bundle's default, returns the
\* recommendations of the 'all' period and never raises.
C7_UnknownPeriodFallsBackToAll ==
    pc = "recommended" =>
        /\ recommendations.raised = ""
        /\ (period_key # NoPeriod /\ period_key \notin DOMAIN bundle.periods) =>
              recommendations = GeneratePolicyRecommendations(bundle, "all")

\* C18: for every input, the empty report list included, the periods of
\* the bundle are exactly the requested keys, and each entry carries its
\* stats, its is_meaningful flag and its window length.
C18_EveryPeriodHasThreeComponents ==
    Analyzed =>
        /\ DOMAIN bundle.periods = time_periods
        /\ \A p \in DOMAIN bundle.periods :
              {"stats", "is_meaningful", "days"} \subseteq DOMAIN bundle.periods[p]

(***************************************************************************)
(* Claims on the accumulator (SpecFold: every state is the stats dict      *)
(* after a prefix of the reports and records has been folded).             *)
(***************************************************************************)
\* the sum of f[k].count over the keys of f
SumOfCounts(f) ==
    LET RECURSIVE Sum(_)
        Sum(D) == IF D = {} THEN 0
                  ELSE LET k == CHOOSE k \in D : TRUE
                       IN  f[k].count + Sum(D \ {k})
    IN  Sum(DOMAIN f)

\* the positions <<report, record>> of the records folded so far
Folded == {<<i, j>> \in (1..Len(reports)) \X (1..MaxFoldRecords + 1) :
              j <= Len(reports[i].records)}

\* does the record at a position claim the domain of its own report
Matches(ij) ==
    reports[ij[1]].records[ij[2]].header_from
        = reports[ij[1]].policy_published.domain

\* C8 as stated: the domain counts sum to at most total_messages, and to
\* exactly total_messages only when every folded record's header_from is
\* the domain of its report.
C8_DomainCountsEqualOnlyIfAllMatch ==
    pc = "fold" =>
        /\ SumOfCounts(stats.domain_stats) <= stats.total_messages
        /\ SumOfCounts(stats.domain_stats) = stats.total_messages =>
              \A ij \in Folded : Matches(ij)

\* C8: the domain counts sum to at most total_messages, and to exactly
\* total_messages only when every folded record that counts at least one
\* message has the header_from of its report's domain.
C8_DomainCountsAtMostTotal ==
    pc = "fold" =>
        /\ SumOfCounts(stats.domain_stats) <= stats.total_messages
        /\ SumOfCounts(stats.domain_stats) = stats.total_messages =>
              \A ij \in Folded :
                  reports[ij[1]].records[ij[2]].count > 0 => Matches(ij)

\* direct and indirect messages have been folded: the domain counts sum to
\* less than total_messages
C8_Witness ==
    /\ pc = "fold"
    /\ 0 < SumOfCounts(stats.domain_stats)
    /\ SumOfCounts(stats.domain_stats) < stats.total_messages
    /\ \E ij \in Folded : ~Matches(ij)

\* C9: after every record folded, every DomainStats and every SourceStats
\* entry has fully_aligned <= count and fully_aligned <= dkim_pass + spf_pass.
C9_FullyAlignedBounded ==
    pc = "fold" =>
        /\ \A d \in DOMAIN stats.domain_stats :
              /\ stats.domain_stats[d].fully_aligned <= stats.domain_stats[d].count
              /\ stats.domain_stats[d].fully_aligned
                    <= stats.domain_stats[d].dkim_pass + stats.domain_stats[d].spf_pass
        /\ \A a \in DOMAIN stats.ips :
              /\ stats.ips[a].fully_aligned <= stats.ips[a].count
              /\ stats.ips[a].fully_aligned
                    <= stats.ips[a].dkim_pass + stats.ips[a].spf_pass

\* a domain has folded a message passing both checks and messages failing
\* both: both bounds are strict
C9_Witness ==
    /\ pc = "fold"
    /\ \E d \in DOMAIN stats.domain_stats :
          /\ stats.domain_stats[d].fully_aligned > 0
          /\ stats.domain_stats[d].fully_aligned < stats.domain_stats[d].count
          /\ stats.domain_stats[d].fully_aligned
                < stats.domain_stats[d].dkim_pass + stats.domain_stats[d].spf_pass

\* the record at a position
RecordAt(ij) == reports[ij[1]].records[ij[2]]

\* the sum of weight(record) over the records at the positions of P
SumOver(P, weight(_)) ==
    LET RECURSIVE Sum(_)
        Sum(Q) == IF Q = {} THEN 0
                  ELSE LET ij == CHOOSE ij \in Q : TRUE
                       IN  weight(RecordAt(ij)) + Sum(Q \ {ij})
    IN  Sum(P)

\* the source addresses and the claimed domains of the folded records
FoldedSources == {RecordAt(ij).source_ip : ij \in Folded}

FoldedHeaderFroms == {RecordAt(ij).header_from : ij \in Folded}

\* the messages of a record
CountOf(record) == record.count

\* C19: after folding any sequence of reports, the sources of ips are
\* those of the folded records, and for every source s ips[s].count is the
\* sum of count over all folded records from s, whatever their header_from,
\* and ips[s].domains is the set of their header_from values.
C19_SourceStatsFromEveryRecord ==
    pc = "fold" =>
        /\ DOMAIN stats.ips = FoldedSources
        /\ \A s \in FoldedSources :
              LET from == {ij \in Folded : RecordAt(ij).source_ip = s}
              IN  /\ stats.ips[s].count = SumOver(from, CountOf)
                  /\ stats.ips[s].domains = {RecordAt(ij).header_from : ij \in from}

\* one source has sent mail of the report's domain and mail of another
\* domain: its entry counts both and names both domains
C19_Witness ==
    /\ pc = "fold"
    /\ \E s \in DOMAIN stats.ips :
          /\ stats.ips[s].domains = {"a.com", "b.com"}
          /\ \E ij \in Folded :
                /\ RecordAt(ij).source_ip = s
                /\ RecordAt(ij).count > 0
                /\ ~Matches(ij)
          /\ stats.ips[s].count = stats.total_messages
          /\ stats.ips[s].count > SumOfCounts(stats.domain_stats)

\* the checks, of DKIM and SPF, that a record fails
FailingChecks(record) ==
    (IF record.dkim_result \in {"pass", "PASS", "Pass"} THEN 0 ELSE 1)
    + (IF record.spf_result \in {"pass", "PASS", "Pass"} THEN 0 ELSE 1)

\* the failed checks of a record, each counted for all its messages
FailuresOf(record) == record.count * FailingChecks(record)

\* C20: after folding any sequence of reports, for every claimed domain h
\* failures_by_domain[h] is the sum, over the folded records with
\* header_from = h, of count times the number of failing checks among DKIM
\* and SPF: twice the count of a record failing both, nothing for a record
\* passing both.
C20_FailuresOncePerFailingCheck ==
    pc = "fold" =>
        /\ DOMAIN stats.failures_by_domain \subseteq FoldedHeaderFroms
        /\ \A h \in FoldedHeaderFroms :
              Get(stats.failures_by_domain, h, 0) =
                  SumOver({ij \in Folded : RecordAt(ij).header_from = h}, FailuresOf)

\* a domain with two messages failing both checks and one passing both:
\* four failures
C20_Witness ==
    /\ pc = "fold"
    /\ \E h \in DOMAIN stats.failures_by_domain :
          /\ stats.failures_by_domain[h] = 4
          /\ \E ij \in Folded :
                /\ RecordAt(ij).header_from = h
                /\ RecordAt(ij).count = 2
                /\ FailingChecks(RecordAt(ij)) = 2
          /\ \E ij \in Folded :
                /\ RecordAt(ij).header_from = h
                /\ RecordAt(ij).count = 1
                /\ FailingChecks(RecordAt(ij)) = 0

\* C17: the accumulator never fails on a report with missing fields,
\* whichever of them are missing, its metadata, policy or records section
\* included: the report loop raises nothing.
C17_AccumulatorNeverFails ==
    pc \notin {"KeyError", "TypeError", "AttributeError"}

\* does a result read 'pass' in some letter case
ReadsPass(result) == result \in {"pass", "PASS", "Pass"}

\* the messages of the records at the positions of P whose result in
\* `field` reads pass (passed = TRUE), or does not (passed = FALSE)
Messages(P, field, passed) ==
    SumOver({ij \in P : ReadsPass(RecordAt(ij)[field]) = passed}, CountOf)

\* the messages of the records at the positions of P of which a result
\* reads pass
AlignedMessages(P) ==
    SumOver({ij \in P : \/ ReadsPass(RecordAt(ij).dkim_result)
                        \/ ReadsPass(RecordAt(ij).spf_result)}, CountOf)

\* C21: a DKIM or SPF result counts as pass iff it reads 'pass' in some
\* letter case, and every other value, a missing one included, counts as
\* fail (no result stops the fold), identically in the DomainStats, the
\* SourceStats and the overall counters and in the fully-aligned test.
C21_PassIffPassInAnyCase ==
    /\ pc # "AttributeError"
    /\ pc = "fold" =>
          /\ stats.dkim_overall = [pass |-> Messages(Folded, "dkim_result", TRUE),
                                   fail |-> Messages(Folded, "dkim_result", FALSE)]
          /\ stats.spf_overall = [pass |-> Messages(Folded, "spf_result", TRUE),
                                  fail |-> Messages(Folded, "spf_result", FALSE)]
          /\ \A s \in DOMAIN stats.ips :
                LET from == {ij \in Folded : RecordAt(ij).source_ip = s}
                IN  /\ stats.ips[s].dkim_pass = Messages(from, "dkim_result", TRUE)
                    /\ stats.ips[s].dkim_fail = Messages(from, "dkim_result", FALSE)
                    /\ stats.ips[s].spf_pass = Messages(from, "spf_result", TRUE)
                    /\ stats.ips[s].spf_fail = Messages(from, "spf_result", FALSE)
                    /\ stats.ips[s].fully_aligned = AlignedMessages(from)
          /\ \A d \in DOMAIN stats.domain_stats :
                LET direct == {ij \in Folded :
                                  /\ reports[ij[1]].policy_published.domain = d
                                  /\ Matches(ij)}
                IN  /\ stats.domain_stats[d].dkim_pass
                          = Messages(direct, "dkim_result", TRUE)
                    /\ stats.domain_stats[d].dkim_fail
                          = Messages(direct, "dkim_result", FALSE)
                    /\ stats.domain_stats[d].spf_pass
                          = Messages(direct, "spf_result", TRUE)
                    /\ stats.domain_stats[d].spf_fail
                          = Messages(direct, "spf_result", FALSE)
                    /\ stats.domain_stats[d].fully_aligned = AlignedMessages(direct)

(***************************************************************************)
(* Last write wins (Spec: 'all' folds the whole list, a numeric period     *)
(* the reports of its window).                                             *)
(***************************************************************************)
\* the position of the last report on domain d in the window of period p
LastReportOn(p, d) ==
    LET on == {i \in Window(p) : reports[i].policy_published.domain = d}
    IN  CHOOSE i \in on : \A j \in on : j <= i

\* what a report publishes, with the defaults for what it leaves out
Published(r) ==
    LET pp == r.policy_published
        p == IF "policy" \in DOMAIN pp THEN pp.policy ELSE "none"
    IN  [policy |-> p,
         pct |-> IF "pct" \in DOMAIN pp THEN PyInt(pp.pct) ELSE 100,
         sp |-> IF "subpolicy" \in DOMAIN pp THEN pp.subpolicy ELSE p]

\* C10: for every period and every domain of its DomainStats, current_policy,
\* current_pct and current_sp are those of the last report, in input order
\* and inside the period's window, on that domain; a report without a
\* subpolicy contributes its own policy as the subpolicy.
C10_LastReportWins ==
    Analyzed =>
        \A p \in DOMAIN bundle.periods :
            \A d \in DOMAIN bundle.periods[p].stats.domain_stats :
                LET ds == bundle.periods[p].stats.domain_stats[d]
                    last == Published(reports[LastReportOn(p, d)])
                IN  /\ ds.current_policy = last.policy
                    /\ ds.current_pct = last.pct
                    /\ ds.current_sp = last.sp

\* the last report on a.com lies outside the 30-day window: 'all' holds its
\* policy, with the policy standing in for the subpolicy it lacks, and '30'
\* holds the policy of the report before it
C10_Witness ==
    /\ Analyzed
    /\ {"30", "all"} \subseteq DOMAIN bundle.periods
    /\ "a.com" \in DOMAIN bundle.periods["30"].stats.domain_stats
    /\ bundle.periods["30"].stats.domain_stats["a.com"].current_policy = "reject"
    /\ bundle.periods["30"].stats.domain_stats["a.com"].current_sp = "none"
    /\ bundle.periods["all"].stats.domain_stats["a.com"].current_policy = "quarantine"
    /\ bundle.periods["all"].stats.domain_stats["a.com"].current_pct = 50
    /\ bundle.periods["all"].stats.domain_stats["a.com"].current_sp = "quarantine"

(***************************************************************************)
(* Claims on generate_policy_recommendations.                              *)
(***************************************************************************)
\* generate_policy_recommendations has returned its list
Recommended == pc = "recommended" /\ recommendations.raised = ""

\* the entries of the returned list
Entries == recommendations.value

\* the period the recommendations rest on
Chosen == ResolvePeriodKey(bundle, period_key)

\* the DomainStats of the chosen period
ChosenDomainStats == bundle.periods[Chosen].stats.domain_stats

\* the position of the first report on domain d among the positions w
FirstReportOn(w, d) ==
    CHOOSE i \in w :
        /\ reports[i].policy_published.domain = d
        /\ \A k \in w : k < i => reports[k].policy_published.domain # d

\* C11: the returned list has exactly one entry per domain key of the
\* chosen period's domain_stats, none missing and none twice, in the order
\* in which the reports folded for that period first name the domains.
C11_OneEntryPerDomainInOrder ==
    Recommended =>
        LET w == Window(Chosen)
            n == Len(Entries)
        IN  /\ {Entries[i].domain : i \in 1..n} = DOMAIN ChosenDomainStats
            /\ \A i, j \in 1..n : i # j => Entries[i].domain # Entries[j].domain
            /\ \A i, j \in 1..n :
                  i < j => FirstReportOn(w, Entries[i].domain)
                              < FirstReportOn(w, Entries[j].domain)

\* b.com is reported before a.com: the list is b.com's entry, then a.com's
C11_Witness ==
    /\ Recommended
    /\ Len(Entries) = 2
    /\ Entries[1].domain = "b.com"
    /\ Entries[2].domain = "a.com"
    /\ reports[1].policy_published.domain = "b.com"

\* the tags of the lines of an entry
Tags(e) == [i \in 1..Len(e.recommendations) |-> e.recommendations[i].tag]

\* C12: a domain whose count is 0 in the chosen period gets exactly one
\* line, the 'no data' line, whatever its policy, pct and subpolicy are.
C12_NoDataLineOnly ==
    Recommended =>
        \A i \in 1..Len(Entries) :
            ChosenDomainStats[Entries[i].domain].count = 0 =>
                Tags(Entries[i]) = << "NO DATA" >>

\* a.com publishes p=quarantine with pct=50 and sp=none, rules that would
\* speak, and has no message of its own: its entry is the 'no data' line
C12_Witness ==
    /\ Recommended
    /\ Len(reports) = 1
    /\ Len(reports[1].records) = 1
    /\ reports[1].records[1].header_from = "b.com"
    /\ Len(Entries) = 1
    /\ ChosenDomainStats["a.com"].count = 0
    /\ ChosenDomainStats["a.com"].current_policy = "quarantine"
    /\ ChosenDomainStats["a.com"].current_pct = 50
    /\ ChosenDomainStats["a.com"].current_sp = "none"
    /\ Tags(Entries[1]) = << "NO DATA" >>

\* the tags of the policy-progression rules
ProgressionTags ==
    {"POLICY UPGRADE", "MONITOR", "CAUTION", "IMPROVEMENT NEEDED",
     "PERCENTAGE INCREASE", "MAINTAIN", "OPTIMAL"}

\* the policy-progression lines of an entry, in order
Progression(e) ==
    SelectSeq(e.recommendations, LAMBDA l : l.tag \in ProgressionTags)

\* the tags of the policy-progression lines of an entry, in order
ProgressionTagsOf(e) == SelectSeq(Tags(e), LAMBDA t : t \in ProgressionTags)

\* is the progression of the entry one percentage increase to `to`
IncreasesTo(e, to) ==
    /\ ProgressionTagsOf(e) = << "PERCENTAGE INCREASE" >>
    /\ Progression(e)[1].to = to

\* pct + step, at most 100
Raised(pct, step) == IF pct + step > 100 THEN 100 ELSE pct + step

\* does the entry have the line
HasLine(e, l) == \E i \in 1..Len(e.recommendations) : e.recommendations[i] = l

\* C13: for current_policy 'none' and count > 0, with alignRate =
\* fully_aligned / count: alignRate >= 0.95 gives the POLICY UPGRADE line
\* (quarantine at pct=5) alone; 0.85 <= alignRate < 0.95 the MONITOR line
\* alone; alignRate < 0.85 the CAUTION line followed by IMPROVEMENT NEEDED.
C13_NoneProgression ==
    Recommended =>
        \A i \in 1..Len(Entries) :
            LET e == Entries[i]
                ds == ChosenDomainStats[e.domain]
                fa == ds.fully_aligned
                n == ds.count
            IN  (n > 0 /\ ds.current_policy = "none") =>
                    /\ 20 * fa >= 19 * n =>
                          /\ ProgressionTagsOf(e) = << "POLICY UPGRADE" >>
                          /\ Progression(e)[1].what = "quarantine pct=5"
                    /\ (20 * fa >= 17 * n /\ 20 * fa < 19 * n) =>
                          ProgressionTagsOf(e) = << "MONITOR" >>
                    /\ 20 * fa < 17 * n =>
                          ProgressionTagsOf(e) = << "CAUTION", "IMPROVEMENT NEEDED" >>

\* p=none with 95 of 100 messages aligned: the upgrade to quarantine
C13_Witness ==
    /\ Recommended
    /\ Len(Entries) = 1
    /\ ChosenDomainStats["a.com"].current_policy = "none"
    /\ ChosenDomainStats["a.com"].count = 100
    /\ ChosenDomainStats["a.com"].fully_aligned = 95
    /\ ProgressionTagsOf(Entries[1]) = << "POLICY UPGRADE" >>

\* C14: for current_policy 'quarantine' and count > 0: alignRate >= 0.98
\* gives, if pct < 100, an increase to min(pct + 25, 100), else the upgrade
\* to reject at pct=5; 0.90 <= alignRate < 0.98 gives, if pct < 100, an
\* increase to min(pct + 10, 100), else the hold-steady line; alignRate <
\* 0.90 gives the decrease-pct caution iff pct > 25, and always the
\* IMPROVEMENT NEEDED line.
C14_QuarantineProgression ==
    Recommended =>
        \A i \in 1..Len(Entries) :
            LET e == Entries[i]
                ds == ChosenDomainStats[e.domain]
                fa == ds.fully_aligned
                n == ds.count
                pct == ds.current_pct
            IN  (n > 0 /\ ds.current_policy = "quarantine") =>
                    /\ 50 * fa >= 49 * n =>
                          IF pct < 100 THEN IncreasesTo(e, Raised(pct, 25))
                          ELSE /\ ProgressionTagsOf(e) = << "POLICY UPGRADE" >>
                               /\ Progression(e)[1].what = "reject pct=5"
                    /\ (10 * fa >= 9 * n /\ 50 * fa < 49 * n) =>
                          IF pct < 100 THEN IncreasesTo(e, Raised(pct, 10))
                          ELSE ProgressionTagsOf(e) = << "MAINTAIN" >>
                    /\ 10 * fa < 9 * n =>
                          ProgressionTagsOf(e) =
                              IF pct > 25 THEN << "CAUTION", "IMPROVEMENT NEEDED" >>
                              ELSE << "IMPROVEMENT NEEDED" >>

\* p=quarantine at pct=90 with 98 of 100 messages aligned: the increase
\* stops at 100
C14_Witness ==
    /\ Recommended
    /\ Len(Entries) = 1
    /\ ChosenDomainStats["a.com"].current_policy = "quarantine"
    /\ ChosenDomainStats["a.com"].current_pct = 90
    /\ ChosenDomainStats["a.com"].count = 100
    /\ ChosenDomainStats["a.com"].fully_aligned = 98
    /\ IncreasesTo(Entries[1], 100)

\* C15: for current_policy 'reject' and count > 0: if pct < 100, alignRate
\* >= 0.98 recommends min(pct + 20, 100), 0.95 <= alignRate < 0.98
\* min(pct + 10, 100), and alignRate < 0.95 the hold-pct caution; if pct =
\* 100 the OPTIMAL line is emitted, and the warning of lost legitimate mail
\* iff alignRate < 0.98.
C15_RejectProgression ==
    Recommended =>
        \A i \in 1..Len(Entries) :
            LET e == Entries[i]
                ds == ChosenDomainStats[e.domain]
                fa == ds.fully_aligned
                n == ds.count
                pct == ds.current_pct
            IN  (n > 0 /\ ds.current_policy = "reject") =>
                    /\ (pct < 100 /\ 50 * fa >= 49 * n) =>
                          IncreasesTo(e, Raised(pct, 20))
                    /\ (pct < 100 /\ 20 * fa >= 19 * n /\ 50 * fa < 49 * n) =>
                          IncreasesTo(e, Raised(pct, 10))
                    /\ (pct < 100 /\ 20 * fa < 19 * n) =>
                          ProgressionTagsOf(e) = << "CAUTION" >>
                    /\ pct = 100 =>
                          /\ ProgressionTagsOf(e) =
                                IF 50 * fa < 49 * n THEN << "OPTIMAL", "MONITOR" >>
                                ELSE << "OPTIMAL" >>
                          /\ HasLine(e, [tag |-> "MONITOR",
                                         what |-> "legitimate email loss"])
                                <=> 50 * fa < 49 * n

\* p=reject at pct=100 with 97 of 100 messages aligned: OPTIMAL and the
\* warning, which 98 of 100 would not get
C15_Witness ==
    /\ Recommended
    /\ Len(Entries) = 1
    /\ ChosenDomainStats["a.com"].current_policy = "reject"
    /\ ChosenDomainStats["a.com"].current_pct = 100
    /\ ChosenDomainStats["a.com"].count = 100
    /\ ChosenDomainStats["a.com"].fully_aligned = 97
    /\ ProgressionTagsOf(Entries[1]) = << "OPTIMAL", "MONITOR" >>

\* is the line at position k of the entry's lines directly after line l
Follows(e, k, l) == k > 1 /\ e.recommendations[k - 1] = l

\* C16: for every domain with count > 0, whatever its policy, the DKIM
\* ISSUE line is emitted iff dkim_pass / count < 0.90 and the DKIM CRITICAL
\* line iff dkim_pass / count < 0.70, directly after the DKIM ISSUE line;
\* the same holds for SPF with spf_pass / count.
C16_AuthenticationRules ==
    Recommended =>
        \A i \in 1..Len(Entries) :
            LET e == Entries[i]
                ds == ChosenDomainStats[e.domain]
                n == ds.count
                dkim_issue == [tag |-> "DKIM ISSUE", what |-> "improve DKIM"]
                dkim_critical == [tag |-> "CRITICAL", what |-> "DKIM"]
                spf_issue == [tag |-> "SPF ISSUE", what |-> "improve SPF"]
                spf_critical == [tag |-> "CRITICAL", what |-> "SPF"]
            IN  n > 0 =>
                    /\ HasLine(e, dkim_issue) <=> 10 * ds.dkim_pass < 9 * n
                    /\ HasLine(e, dkim_critical) <=> 10 * ds.dkim_pass < 7 * n
                    /\ HasLine(e, spf_issue) <=> 10 * ds.spf_pass < 9 * n
                    /\ HasLine(e, spf_critical) <=> 10 * ds.spf_pass < 7 * n
                    /\ \A k \in 1..Len(e.recommendations) :
                          /\ e.recommendations[k] = dkim_critical =>
                                Follows(e, k, dkim_issue)
                          /\ e.recommendations[k] = spf_critical =>
                                Follows(e, k, spf_issue)

\* 70 of 100 messages pass DKIM and all pass SPF: the DKIM ISSUE line
\* without the CRITICAL line, and no SPF line
C16_Witness ==
    /\ Recommended
    /\ Len(Entries) = 1
    /\ ChosenDomainStats["a.com"].count = 100
    /\ ChosenDomainStats["a.com"].dkim_pass = 70
    /\ ChosenDomainStats["a.com"].spf_pass = 100
    /\ HasLine(Entries[1], [tag |-> "DKIM ISSUE", what |-> "improve DKIM"])
    /\ ~HasLine(Entries[1], [tag |-> "CRITICAL", what |-> "DKIM"])
    /\ ~HasLine(Entries[1], [tag |-> "SPF ISSUE", what |-> "improve SPF"])

\* the fields of a stats snapshot
SnapshotFields ==
    {"messages", "dkim_rate", "spf_rate", "alignment_rate", "current_policy",
     "current_pct", "current_sp", "num_sources", "policy_results"}

\* is the rate num/den a percentage between 0 and 100
IsPercentage(rate) == 0 <= rate.num /\ rate.num <= 100 * rate.den

\* C22: every entry of the returned list, the entry of a domain with
\* count = 0 included, carries a stats snapshot with the same fields: the
\* message count, the DKIM, SPF and alignment rates as percentages between
\* 0 and 100, the current policy, pct and subpolicy, the source count and
\* the disposition histogram.
C22_EveryEntryHasSnapshot ==
    Recommended =>
        \A i \in 1..Len(Entries) :
            LET snapshot == Entries[i].stats
            IN  /\ DOMAIN snapshot = SnapshotFields
                /\ snapshot.messages = ChosenDomainStats[Entries[i].domain].count
                /\ IsPercentage(snapshot.dkim_rate)
                /\ IsPercentage(snapshot.spf_rate)
                /\ IsPercentage(snapshot.alignment_rate)

\* C23: every pct proposed in a percentage-adjustment line lies between 0
\* and 100, whatever integer pct the domain publishes, and is not lower
\* than the current pct when the line is an increase.
C23_ProposedPctInRange ==
    Recommended =>
        \A i \in 1..Len(Entries) :
            \A k \in 1..Len(Entries[i].recommendations) :
                LET l == Entries[i].recommendations[k]
                IN  l.tag = "PERCENTAGE INCREASE" =>
                        /\ 0 <= l.to
                        /\ l.to <= 100
                        /\ l.from <= l.to
                        /\ l.from = ChosenDomainStats[Entries[i].domain].current_pct

\* the sources of the records, among the reports folded for the chosen
\* period, of reports on domain d whose header_from is d
DirectSources(d) ==
    {r.source_ip : r \in UNION {{reports[i].records[k] :
                                    k \in 1..Len(reports[i].records)} :
                                 i \in {j \in Window(Chosen) :
                                           reports[j].policy_published.domain = d}}
                      \ {r \in UNION {{reports[i].records[k] :
                                          k \in 1..Len(reports[i].records)} :
                                       i \in 1..Len(reports)} :
                            r.header_from # d}}

\* C24: for a domain with count > 0 the SUBDOMAIN POLICY line is emitted
\* iff its current subpolicy is not 'reject' and its current policy is not
\* 'none': p=quarantine with the subpolicy defaulted to the policy gets it,
\* p=none never does.
C24_SubdomainPolicyLine ==
    Recommended =>
        \A i \in 1..Len(Entries) :
            LET ds == ChosenDomainStats[Entries[i].domain]
            IN  ds.count > 0 =>
                    ("SUBDOMAIN POLICY" \in {Tags(Entries[i])[k] :
                                                k \in 1..Len(Tags(Entries[i]))}
                        <=> (ds.current_sp # "reject" /\ ds.current_policy # "none"))

\* a.com publishes p=quarantine and its subpolicy is the policy: the line
C24_Witness ==
    /\ Recommended
    /\ Len(Entries) = 1
    /\ ChosenDomainStats["a.com"].count > 0
    /\ ChosenDomainStats["a.com"].current_policy = "quarantine"
    /\ ChosenDomainStats["a.com"].current_sp = "quarantine"
    /\ HasLine(Entries[1], [tag |-> "SUBDOMAIN POLICY", what |-> "sp=reject"])

\* C25: for a domain with count > 0 the DIVERSITY WARNING line is emitted
\* iff the distinct sources of its own mail number more than 10, its
\* current policy is not 'none' and its current pct is over 50.
C25_DiversityWarningLine ==
    Recommended =>
        \A i \in 1..Len(Entries) :
            LET d == Entries[i].domain
                ds == ChosenDomainStats[d]
            IN  ds.count > 0 =>
                    (HasLine(Entries[i], [tag |-> "DIVERSITY WARNING",
                                          what |-> "sending sources"])
                        <=> /\ Cardinality(DirectSources(d)) > 10
                            /\ ds.current_policy # "none"
                            /\ ds.current_pct > 50)

\* exactly ten sources under p=reject at pct=100: no warning
C25_Witness ==
    /\ Recommended
    /\ Len(Entries) = 1
    /\ Cardinality(DirectSources("a.com")) = 10
    /\ ChosenDomainStats["a.com"].current_policy = "reject"
    /\ ChosenDomainStats["a.com"].current_pct = 100
    /\ ~HasLine(Entries[1], [tag |-> "DIVERSITY WARNING", what |-> "sending sources"])

\* C26: analyze_reports leaves the report list and every report in it as
\* they were, and generate_policy_recommendations leaves the bundle (every
\* period's stats and flags, the keys of domain_stats and ips, and
\* default_period) and the reports as they were, for any period key.
C26_InputsUnchanged ==
    [][/\ (pc = "parse" /\ pc' = "analyzed") => reports' = reports
       /\ (pc = "analyzed" /\ pc' = "recommended") =>
              /\ bundle' = bundle
              /\ reports' = reports]_vars

\* recommendations were made for the 30-day default over a bundle holding
\* a.com, and the bundle still has that default and that domain
C26_Witness ==
    /\ Recommended
    /\ Len(reports) = 1
    /\ period_key = NoPeriod
    /\ bundle.default_period = "30"
    /\ "a.com" \in DOMAIN bundle.periods["30"].stats.domain_stats
    /\ Len(Entries) = 1

\* do the pass and fail counters of an entry split its count, and does
\* neither pass counter exceed its fully aligned count
Partitioned(e) ==
    /\ e.dkim_pass + e.dkim_fail = e.count
    /\ e.spf_pass + e.spf_fail = e.count
    /\ e.dkim_pass <= e.fully_aligned
    /\ e.spf_pass <= e.fully_aligned

\* C27: after every record folded, in every DomainStats and SourceStats
\* entry dkim_pass + dkim_fail = count = spf_pass + spf_fail and
\* max(dkim_pass, spf_pass) <= fully_aligned, and the overall DKIM and SPF
\* totals each add up to total_messages.
C27_PassFailPartition ==
    /\ \A d \in DOMAIN stats.domain_stats : Partitioned(stats.domain_stats[d])
    /\ \A s \in DOMAIN stats.ips : Partitioned(stats.ips[s])
    /\ stats.dkim_overall.pass + stats.dkim_overall.fail = stats.total_messages
    /\ stats.spf_overall.pass + stats.spf_overall.fail = stats.total_messages

\* one source sent a message passing both checks and one passing SPF only,
\* direct mail of the report's domain
C27_Witness ==
    /\ pc = "fold"
    /\ \E s \in DOMAIN stats.ips :
          /\ stats.ips[s].count = 2
          /\ stats.ips[s].dkim_pass = 1
          /\ stats.ips[s].dkim_fail = 1
          /\ stats.ips[s].spf_pass = 2
          /\ stats.ips[s].fully_aligned = 2
    /\ \E d \in DOMAIN stats.domain_stats :
          /\ stats.domain_stats[d].count = 2
          /\ stats.domain_stats[d].dkim_pass = 1
          /\ stats.domain_stats[d].fully_aligned = 2
    /\ stats.dkim_overall = [pass |-> 1, fail |-> 1]

\* the sum of the values of a histogram
SumOfValues(f) ==
    LET RECURSIVE Sum(_)
        Sum(D) == IF D = {} THEN 0
                  ELSE LET k == CHOOSE k \in D : TRUE
                       IN  f[k] + Sum(D \ {k})
    IN  Sum(DOMAIN f)

\* C28: after folding any sequence of reports, total_messages is the sum of
\* the counts of all sources and the sum of the overall disposition
\* histogram; each domain's policy_applied histogram sums to its count; and
\* failures_by_domain sums to dkim_overall.fail + spf_overall.fail.
C28_ConservationAcrossViews ==
    /\ stats.total_messages = SumOfCounts(stats.ips)
    /\ stats.total_messages = SumOfValues(stats.disposition_overall)
    /\ \A d \in DOMAIN stats.domain_stats :
          SumOfValues(stats.domain_stats[d].policy_applied)
              = stats.domain_stats[d].count
    /\ SumOfValues(stats.failures_by_domain)
          = stats.dkim_overall.fail + stats.spf_overall.fail

\* three messages from two sources with two dispositions and failures of
\* two claimed domains, some of them direct mail
C28_Witness ==
    /\ pc = "fold"
    /\ stats.total_messages = 3
    /\ Cardinality(DOMAIN stats.ips) = 2
    /\ Cardinality(DOMAIN stats.disposition_overall) = 2
    /\ Cardinality(DOMAIN stats.failures_by_domain) = 2
    /\ stats.dkim_overall.fail + stats.spf_overall.fail = 5
    /\ \E d \in DOMAIN stats.domain_stats :
          /\ stats.domain_stats[d].count = 2
          /\ DOMAIN stats.domain_stats[d].policy_applied = {"reject"}

(***************************************************************************)
(* Claims on the periods of one bundle (SpecAnalyze).                      *)
(***************************************************************************)
\* the reports analyze_reports folds for period p
FoldedFor(p) ==
    LET folded == IF p = "all" THEN reports
                  ELSE FilteredReports(reports, p, Now)
    IN  {folded[i] : i \in 1..Len(folded)}

\* is period p shorter than period q
Shorter(p, q) ==
    IF q = "all" THEN p # "all"
    ELSE p # "all" /\ PeriodDays(p) < PeriodDays(q)

\* C29: within one bundle, for numeric period keys d1 < d2 the reports
\* folded for d1 are among those folded for d2, which are among those
\* folded for 'all'; total_messages does not decrease with the period
\* length, and a meaningful period makes every longer requested period
\* and 'all' meaningful.
C29_WindowNesting ==
    Analyzed =>
        \A p, q \in DOMAIN bundle.periods :
            Shorter(p, q) =>
                /\ FoldedFor(p) \subseteq FoldedFor(q)
                /\ bundle.periods[p].stats.total_messages
                      <= bundle.periods[q].stats.total_messages
                /\ bundle.periods[p].is_meaningful => bundle.periods[q].is_meaningful

\* 30 days hold one message, 180 days two and all three
C29_Witness ==
    /\ Analyzed
    /\ {"30", "180", "all"} \subseteq DOMAIN bundle.periods
    /\ bundle.periods["30"].stats.total_messages = 1
    /\ bundle.periods["180"].stats.total_messages = 2
    /\ bundle.periods["all"].stats.total_messages = 3
    /\ FoldedFor("30") # FoldedFor("180")
    /\ FoldedFor("180") # FoldedFor("all")

\* C30: whenever at least one requested period is meaningful the
\* default_period is itself meaningful; a non-meaningful default is
\* chosen only when no requested period is meaningful.
C30_DefaultIsMeaningful ==
    Analyzed =>
        /\ Meaningful # {} =>
              /\ "default_period" \in DOMAIN bundle
              /\ bundle.default_period \in Meaningful
        /\ ("default_period" \in DOMAIN bundle
            /\ bundle.default_period \notin Meaningful) => Meaningful = {}

\* 30 and 90 are requested without being meaningful, 180 and all are
\* meaningful, and the default is 180
C30_Witness ==
    /\ Analyzed
    /\ DOMAIN bundle.periods = {"30", "90", "180", "all"}
    /\ Meaningful = {"180", "all"}
    /\ bundle.default_period = "180"

====
